---- MODULE Spec2Model ----
(***************************************************************************)
(* EarlyAllocator<PAGE_SIZE> of arceos/modules/bump_allocator/src/lib.rs:  *)
(* a double-ended bump arena.  Bytes are allocated forward from b_pos,     *)
(* pages backward from p_pos, and one counter `sum` is shared by both.     *)
(*                                                                         *)
(* usize is modelled as the integers modulo Word = 2^WordBits with the     *)
(* wrapping arithmetic of a build without overflow checks (the arithmetic  *)
(* the counter relies on in alloc_pages(0, _) and dealloc at sum == 0).    *)
(***************************************************************************)
EXTENDS Integers, Naturals, Sequences, FiniteSets, TLC

\* ---- bounds of the model --------------------------------------------------
WordBits == 5
PageShift == 2
MaxCalls == 4
MaxAlignShift == 2

Word == 2^WordBits
WordMax == Word - 1
PAGE_SIZE == 2^PageShift

\* ---- usize arithmetic -----------------------------------------------------
WAdd(x, y) == (x + y) % Word
WSub(x, y) == (x + Word - y) % Word
WMul(x, y) == (x * y) % Word

\* usize::next_multiple_of, as the standard library computes it
next_multiple_of(x, rhs) ==
  LET r == x % rhs
  IN  IF r = 0 THEN x ELSE WAdd(x, rhs - r)

\* ---- inputs ---------------------------------------------------------------
Aligns == {2^k : k \in 0..MaxAlignShift}
\* core::alloc::Layout: align a power of two, size rounded up to align
\* does not exceed isize::MAX
Layouts == {l \in [size : 0..(Word \div 2 - 1), align : Aligns] :
              l.size <= Word \div 2 - l.align}
\* sizes offered to alloc: the small ones, and the largest a Layout allows
AllocLayouts == {l \in Layouts : l.size \in {0, 1, 3, PAGE_SIZE} \/ l.size = Word \div 2 - l.align}
\* regions handed to init: a low one and one in the upper half of the address
\* space (where a kernel's memory lives); a valid region does not wrap
InitStarts == {PAGE_SIZE, Word \div 2 + PAGE_SIZE}
InitSizes == {0, 2 * PAGE_SIZE, 4 * PAGE_SIZE}
InitRegions == {r \in [start : InitStarts, size : InitSizes] : r.start + r.size < Word}
NumPages == {0, 1, 2, 4}
AlignPow2s == {PAGE_SIZE, 2 * PAGE_SIZE}
Positions == {0, PAGE_SIZE}
\* layouts passed back to dealloc, which reads neither argument
FreedLayouts == {l \in AllocLayouts : l.align = 1 /\ l.size <= 1}

\* ---- results --------------------------------------------------------------
Ok(v) == [kind |-> "Ok", val |-> v]
Err(e) == [kind |-> e, val |-> 0]
Unit == [kind |-> "unit", val |-> 0]
Panic == [kind |-> "panic", val |-> 0]
\* NonNull::new_unchecked(0): behaviour of the build is undefined
Undefined == [kind |-> "undefined", val |-> 0]

\* ---- the methods, as functions of the arena -------------------------------
new == [b_pos |-> 0, p_pos |-> 0, start |-> 0, end |-> 0, sum |-> 0]

\* variant: init that forgets to clear the counter
init_keeps_sum(a, start, size) ==
  [b_pos |-> start, p_pos |-> WAdd(start, size),
   start |-> start, end |-> WAdd(start, size), sum |-> a.sum]

init(a, start, size) ==
  [b_pos |-> start, p_pos |-> WAdd(start, size),
   start |-> start, end |-> WAdd(start, size), sum |-> 0]

\* variant: add_memory that reports an ordinary error instead of stopping
add_memory_returns(a, start, size) == [self |-> a, rets |-> {Err("NoMemory")}]

add_memory(a, start, size) == [self |-> a, rets |-> {Panic}]

\* variant: alloc that validates before committing the cursor
alloc_rollback(a, size, align) ==
  LET start == next_multiple_of(a.b_pos, align)
      a1 == [a EXCEPT !.b_pos = WAdd(start, size)]
  IN  IF a1.b_pos > a1.p_pos
      THEN [self |-> a, rets |-> {Err("NoMemory")}]
      ELSE [self |-> a1,
            rets |-> IF start = 0 THEN {Ok(0), Undefined} ELSE {Ok(start)}]

alloc(a, size, align) ==
  LET start == next_multiple_of(a.b_pos, align)
      a1 == [a EXCEPT !.b_pos = WAdd(start, size)]
  IN  IF a1.b_pos > a1.p_pos
      THEN [self |-> a1, rets |-> {Err("NoMemory")}]
      ELSE [self |-> a1,
            rets |-> IF start = 0 THEN {Ok(0), Undefined} ELSE {Ok(start)}]

\* variant: dealloc that tests the counter before taking one off, never wrapping
dealloc_checks_first(a, pos, layout) ==
  IF a.sum <= 1
  THEN [a EXCEPT !.sum = 0, !.b_pos = a.start]
  ELSE [a EXCEPT !.sum = a.sum - 1]

dealloc(a, pos, layout) ==
  LET a1 == [a EXCEPT !.sum = WSub(a.sum, 1)]
  IN  IF a1.sum = 0 THEN [a1 EXCEPT !.b_pos = a1.start] ELSE a1

\* variant: alloc_pages that reserves a batch on every call
alloc_pages_always(a, num_pages, align_pow2) ==
  LET a1 == [a EXCEPT !.p_pos = WSub(a.p_pos, WMul(num_pages, PAGE_SIZE))]
      a2 == [a1 EXCEPT !.sum = WSub(a.sum, 1)]
  IN  [self |-> a2, rets |-> {Ok(a2.p_pos)}]

\* variant: alloc_pages that refuses a batch reaching below b_pos
alloc_pages_checked(a, num_pages, align_pow2) ==
  IF a.sum = 0 /\ a.p_pos - a.b_pos < num_pages * PAGE_SIZE
  THEN [self |-> a, rets |-> {Err("NoMemory")}]
  ELSE LET a1 == IF a.sum = 0
                 THEN [a EXCEPT !.p_pos = WSub(a.p_pos, WMul(num_pages, PAGE_SIZE)),
                                !.sum = num_pages]
                 ELSE a
           a2 == [a1 EXCEPT !.sum = WSub(a1.sum, 1)]
       IN  [self |-> a2, rets |-> {Ok(a2.p_pos)}]

\* variant: alloc_pages whose reserving call does not take one off the counter
alloc_pages_nodec(a, num_pages, align_pow2) ==
  LET a2 == IF a.sum = 0
            THEN [a EXCEPT !.p_pos = WSub(a.p_pos, WMul(num_pages, PAGE_SIZE)),
                           !.sum = num_pages]
            ELSE [a EXCEPT !.sum = WSub(a.sum, 1)]
  IN  [self |-> a2, rets |-> {Ok(a2.p_pos)}]

\* variant: alloc_pages that moves p_pos by num_pages bytes
alloc_pages_bytes(a, num_pages, align_pow2) ==
  LET a1 == IF a.sum = 0
            THEN [a EXCEPT !.p_pos = WSub(a.p_pos, num_pages), !.sum = num_pages]
            ELSE a
      a2 == [a1 EXCEPT !.sum = WSub(a1.sum, 1)]
  IN  [self |-> a2, rets |-> {Ok(a2.p_pos)}]

alloc_pages(a, num_pages, align_pow2) ==
  LET a1 == IF a.sum = 0
            THEN [a EXCEPT !.p_pos = WSub(a.p_pos, WMul(num_pages, PAGE_SIZE)),
                           !.sum = num_pages]
            ELSE a
      a2 == [a1 EXCEPT !.sum = WSub(a1.sum, 1)]
  IN  [self |-> a2, rets |-> {Ok(a2.p_pos)}]

dealloc_pages(a, pos, num_pages) ==
  LET a1 == [a EXCEPT !.sum = WAdd(a.sum, 1)]
  IN  IF a1.sum = 0
      THEN [a1 EXCEPT !.p_pos = WAdd(a1.p_pos, WMul(num_pages, PAGE_SIZE))]
      ELSE a1

total_bytes(a) == WSub(a.p_pos, a.b_pos)
used_bytes(a) == WSub(a.p_pos, a.b_pos)
available_bytes(a) == WSub(a.p_pos, a.b_pos)
total_pages(a) == WSub(a.p_pos, a.b_pos)
\* variant: used_pages that counts pages
used_pages_count(a) == WSub(a.p_pos, a.b_pos) \div PAGE_SIZE

used_pages(a) == WSub(a.p_pos, a.b_pos)
available_pages(a) == WSub(a.p_pos, a.b_pos)

Queries == {"total_bytes", "used_bytes", "available_bytes",
            "total_pages", "used_pages", "available_pages"}

query(q, a) ==
  CASE q = "total_bytes" -> total_bytes(a)
    [] q = "used_bytes" -> used_bytes(a)
    [] q = "available_bytes" -> available_bytes(a)
    [] q = "total_pages" -> total_pages(a)
    [] q = "used_pages" -> used_pages(a)
    [] q = "available_pages" -> available_pages(a)

\* ---- state ----------------------------------------------------------------
VARIABLES
  self,      \* the EarlyAllocator: b_pos, p_pos, start, end, sum
  last,      \* the most recent call: its name, arguments and result
  panicked,  \* unreachable!() was hit: the program has stopped
  inited,    \* init has been called at least once
  live,      \* byte allocations granted by alloc and not yet released
  oom,       \* a byte allocation failed and neither cursor was moved back since
  calls,     \* number of calls made since the initial state
  byte_mem,  \* addresses of the byte allocations that may still be in use
  page_mem,  \* addresses of the page batches reserved since init
  run,       \* alloc_pages calls in a row, counted from one that reserved a batch
  batch_n,   \* num_pages of the batch that started the current row
  clean,     \* since init: no dealloc and no alloc_pages(0, _)
  dpc        \* dealloc_pages calls since init

vars == <<self, last, panicked, inited, live, oom, calls,
          byte_mem, page_mem, run, batch_n, clean, dpc>>

Call(op, x, y, r, b) == [op |-> op, a1 |-> x, a2 |-> y, ret |-> r, batch |-> b]

\* the addresses of size bytes at addr
Bytes(addr, size) == {(addr + i) % Word : i \in 0..(size - 1)}

Init ==
  /\ self = new
  /\ last = Call("new", 0, 0, Unit, FALSE)
  /\ panicked = FALSE
  /\ inited = FALSE
  /\ live = 0
  /\ oom = FALSE
  /\ calls = 0
  /\ byte_mem = {}
  /\ page_mem = {}
  /\ run = 0
  /\ batch_n = 0
  /\ clean = FALSE
  /\ dpc = 0

Running == ~panicked /\ calls < MaxCalls

\* a run that is init followed by dealloc_pages calls only is followed far
\* enough for the counter to be counted all the way round
RunningRelease ==
  \/ Running
  \/ ~panicked /\ inited /\ dpc = calls - 1 /\ calls <= Word

InitCall ==
  \E r \in InitRegions :
    /\ Running
    /\ self' = init(self, r.start, r.size)
    /\ last' = Call("init", r.start, r.size, Unit, FALSE)
    /\ inited' = TRUE
    /\ live' = 0
    /\ oom' = FALSE
    /\ calls' = calls + 1
    /\ byte_mem' = {}
    /\ page_mem' = {}
    /\ run' = 0
    /\ batch_n' = 0
    /\ clean' = TRUE
    /\ dpc' = 0
    /\ UNCHANGED panicked

AddMemory ==
  \E start \in InitStarts, size \in InitSizes :
    LET out == add_memory(self, start, size)
    IN  /\ Running
        /\ self' = out.self
        /\ \E r \in out.rets :
             /\ last' = Call("add_memory", start, size, r, FALSE)
             /\ panicked' = (r.kind = "panic")
        /\ calls' = calls + 1
        /\ UNCHANGED <<inited, live, oom, byte_mem, page_mem, run, batch_n, clean, dpc>>

Alloc ==
  \E l \in AllocLayouts :
    LET out == alloc(self, l.size, l.align)
    IN  /\ Running
        /\ self' = out.self
        /\ \E r \in out.rets :
             /\ last' = Call("alloc", l.size, l.align, r, FALSE)
             /\ live' = IF r.kind = "Ok" THEN live + 1 ELSE live
             /\ byte_mem' = IF r.kind = "Ok"
                            THEN byte_mem \cup Bytes(r.val, l.size)
                            ELSE byte_mem
             /\ oom' = (oom \/ r.kind = "NoMemory")
        /\ calls' = calls + 1
        /\ run' = 0
        /\ batch_n' = 0
        /\ UNCHANGED <<panicked, inited, page_mem, clean, dpc>>

Dealloc ==
  \E pos \in Positions, l \in FreedLayouts :
    /\ Running
    /\ self' = dealloc(self, pos, l)
    /\ last' = Call("dealloc", 0, 0, Unit, FALSE)
    /\ live' = IF live > 0 THEN live - 1 ELSE 0
    /\ byte_mem' = IF live' = 0 THEN {} ELSE byte_mem
    /\ oom' = (oom /\ self'.sum # 0)
    /\ calls' = calls + 1
    /\ run' = 0
    /\ batch_n' = 0
    /\ clean' = FALSE
    /\ UNCHANGED <<panicked, inited, page_mem, dpc>>

AllocPages ==
  \E num_pages \in NumPages, align_pow2 \in AlignPow2s :
    LET out == alloc_pages(self, num_pages, align_pow2)
    IN  /\ Running
        /\ self' = out.self
        /\ \E r \in out.rets :
             /\ last' = Call("alloc_pages", num_pages, align_pow2, r, self.sum = 0)
             /\ page_mem' = IF self.sum = 0
                            THEN page_mem \cup Bytes(r.val, num_pages * PAGE_SIZE)
                            ELSE page_mem
        /\ oom' = (oom /\ self'.p_pos = self.p_pos)
        /\ calls' = calls + 1
        /\ run' = IF run > 0 THEN run + 1 ELSE IF self.sum = 0 THEN 1 ELSE 0
        /\ batch_n' = IF run > 0 THEN batch_n ELSE IF self.sum = 0 THEN num_pages ELSE 0
        /\ clean' = (clean /\ num_pages >= 1)
        /\ UNCHANGED <<panicked, inited, live, byte_mem, dpc>>

DeallocPages ==
  \E pos \in Positions, num_pages \in NumPages :
    /\ RunningRelease
    /\ self' = dealloc_pages(self, pos, num_pages)
    /\ last' = Call("dealloc_pages", 0, num_pages, Unit, FALSE)
    /\ oom' = (oom /\ self'.p_pos = self.p_pos)
    /\ calls' = calls + 1
    /\ run' = 0
    /\ batch_n' = 0
    /\ dpc' = dpc + 1
    /\ UNCHANGED <<panicked, inited, live, byte_mem, page_mem, clean>>

Query ==
  \E q \in Queries :
    /\ Running
    /\ last' = Call(q, 0, 0, Ok(query(q, self)), FALSE)
    /\ calls' = calls + 1
    /\ run' = 0
    /\ batch_n' = 0
    /\ UNCHANGED <<self, panicked, inited, live, oom, byte_mem, page_mem, clean, dpc>>

Next ==
  \/ InitCall
  \/ AddMemory
  \/ Alloc
  \/ Dealloc
  \/ AllocPages
  \/ DeallocPages
  \/ Query

Spec == Init /\ [][Next]_vars

\* the same calls, followed from an arena that init has just set up
InitInited ==
  \E r \in InitRegions :
    /\ self = init(new, r.start, r.size)
    /\ last = Call("init", r.start, r.size, Unit, FALSE)
    /\ panicked = FALSE
    /\ inited = TRUE
    /\ live = 0
    /\ oom = FALSE
    /\ calls = 0
    /\ byte_mem = {}
    /\ page_mem = {}
    /\ run = 0
    /\ batch_n = 0
    /\ clean = TRUE
    /\ dpc = 0

SpecInited == InitInited /\ [][Next]_vars

TypeOK ==
  /\ self \in [b_pos : 0..WordMax, p_pos : 0..WordMax, start : 0..WordMax,
               end : 0..WordMax, sum : 0..WordMax]
  /\ panicked \in BOOLEAN
  /\ inited \in BOOLEAN
  /\ live \in 0..MaxCalls
  /\ oom \in BOOLEAN
  /\ calls \in 0..(Word + 1)
  /\ byte_mem \subseteq 0..WordMax
  /\ page_mem \subseteq 0..WordMax
  /\ run \in 0..MaxCalls
  /\ batch_n \in NumPages
  /\ clean \in BOOLEAN
  /\ dpc \in 0..Word

\* ---- properties -----------------------------------------------------------

\* the smallest multiple of align that is >= x, over the unbounded integers
AlignUp(x, align) == ((x + align - 1) \div align) * align

\* C1: whatever the arena held before, after init(start, size) it holds
\* b_pos = start, p_pos = start + size, start = start, end = start + size
\* and sum = 0: the result is a function of the two arguments only.
C1_InitResetsEverything ==
  last.op = "init" =>
    self = [b_pos |-> last.a1, p_pos |-> last.a1 + last.a2,
            start |-> last.a1, end |-> last.a1 + last.a2, sum |-> 0]

\* an init issued on an arena that earlier calls have already changed
C1_Witness ==
  /\ last.op = "init"
  /\ calls >= 3
  /\ self.p_pos = last.a1 + last.a2
  /\ self.p_pos > self.b_pos

\* C2: after init, every alloc that returns Ok(addr) returns an addr that
\* is a multiple of align and lies in [start, p_pos).
C2_OkAddressAlignedInRange ==
  (inited /\ last.op = "alloc" /\ last.ret.kind = "Ok") =>
    /\ last.ret.val % last.a2 = 0
    /\ self.start <= last.ret.val
    /\ last.ret.val < self.p_pos

\* C3: on an initialised arena alloc(size, align) returns NoMemory exactly
\* when the aligned end align_up(b_pos, align) + size lies beyond p_pos,
\* returns Ok otherwise, and never stops the program.
C3_NoMemoryExactlyWhenBeyond ==
  [][(inited /\ last'.op = "alloc") =>
       /\ last'.ret.kind \in {"Ok", "NoMemory"}
       /\ (last'.ret.kind = "NoMemory") <=>
            (AlignUp(self.b_pos, last'.a2) + last'.a1 > self.p_pos)
       /\ ~panicked']_vars

\* C4: add_memory always hits unreachable!(): it yields neither Ok nor an
\* error value, leaves the arena as it was, and no call follows it.
C4_AddMemoryFatal ==
  [][/\ ~panicked
     /\ last'.op = "add_memory" =>
          /\ last'.ret.kind = "panic"
          /\ panicked'
          /\ self' = self]_vars

\* add_memory called on an initialised arena
C4_Witness ==
  /\ last.op = "add_memory"
  /\ inited
  /\ panicked

\* C5: after init, start <= b_pos <= p_pos <= end in every state.
C5_CursorsOrdered ==
  inited =>
    /\ self.start <= self.b_pos
    /\ self.b_pos <= self.p_pos
    /\ self.p_pos <= self.end

\* C6: between two init calls no call makes p_pos larger.
C6_PageCursorNeverIncreases ==
  [][(inited /\ last'.op # "init") => self'.p_pos <= self.p_pos]_vars

\* C7: while sum > 0, alloc_pages leaves p_pos alone, returns Ok(p_pos) and
\* takes exactly one off sum; two alloc_pages(4, _) in a row starting at
\* sum = 0 return the same address, move p_pos once and end with sum = 2.
C7_AllocPagesSharesBatch ==
  [][/\ (last'.op = "alloc_pages" /\ self.sum > 0) =>
          /\ self'.p_pos = self.p_pos
          /\ last'.ret = Ok(self.p_pos)
          /\ self'.sum = self.sum - 1
     /\ (/\ last.op = "alloc_pages" /\ last.batch /\ last.a1 = 4
         /\ last'.op = "alloc_pages" /\ last'.a1 = 4) =>
          /\ last'.ret = last.ret
          /\ self'.p_pos = self.p_pos
          /\ self'.sum = 2]_vars

\* init, alloc_pages(4, _), alloc_pages(4, _): the state after the second
C7_Witness ==
  /\ inited
  /\ calls = 3
  /\ last.op = "alloc_pages"
  /\ last.a1 = 4
  /\ ~last.batch
  /\ self.sum = 2
  /\ last.ret = Ok(self.p_pos)
  /\ self.p_pos = WSub(self.end, WMul(4, PAGE_SIZE))

\* C8: after init, sum equals the number of byte allocations granted by
\* alloc and not yet released by dealloc.
C8_CountTracksLiveAllocations ==
  inited => self.sum = live

\* C9: an alloc that returns NoMemory leaves b_pos at the attempted value
\* align_up(old b_pos, align) + size (a usize sum), which is beyond p_pos,
\* and leaves p_pos, start, end and sum as they were.
C9_FailedAllocNotRolledBack ==
  [][(last'.op = "alloc" /\ last'.ret.kind = "NoMemory") =>
       /\ self'.b_pos = (AlignUp(self.b_pos, last'.a2) + last'.a1) % Word
       /\ self'.b_pos > self.p_pos
       /\ self'.p_pos = self.p_pos
       /\ self'.start = self.start
       /\ self'.end = self.end
       /\ self'.sum = self.sum]_vars

\* a failed alloc of non-zero size out of a non-empty initialised region,
\* whose cursor then stands beyond p_pos
C9_Witness ==
  /\ inited
  /\ last.op = "alloc"
  /\ last.ret.kind = "NoMemory"
  /\ last.a1 > 0
  /\ self.start < self.p_pos
  /\ self.b_pos > self.p_pos

\* C10: once an alloc has failed, every later alloc fails with NoMemory
\* until init, a dealloc that puts b_pos back to start, or a call that
\* changes p_pos.
C10_FailureIsSticky ==
  [][(oom /\ last'.op = "alloc") => last'.ret.kind = "NoMemory"]_vars

\* C11: on an initialised arena an alloc that returns Ok returns the
\* smallest multiple of align that is >= the old b_pos, leaves b_pos at that
\* address + size (a usize sum), and leaves sum, p_pos, start and end as
\* they were.
C11_OkAllocReturnsAlignedCursor ==
  [][(inited /\ last'.op = "alloc" /\ last'.ret.kind = "Ok") =>
       /\ last'.ret.val = AlignUp(self.b_pos, last'.a2)
       /\ self'.b_pos = (last'.ret.val + last'.a1) % Word
       /\ self'.sum = self.sum
       /\ self'.p_pos = self.p_pos
       /\ self'.start = self.start
       /\ self'.end = self.end]_vars

\* C12: dealloc takes exactly one off sum (0 wraps to the maximum), puts
\* b_pos back to start when the new sum is 0 and leaves it alone otherwise,
\* and never touches p_pos, start or end; at sum = 0 nothing is reclaimed.
C12_DeallocDecrementsThenTests ==
  [][last'.op = "dealloc" =>
       /\ self'.sum = (self.sum + Word - 1) % Word
       /\ (self'.sum = 0) => (self'.b_pos = self.start)
       /\ (self'.sum # 0) => (self'.b_pos = self.b_pos)
       /\ (self.sum = 0) => (self'.sum = WordMax /\ self'.b_pos = self.b_pos)
       /\ self'.p_pos = self.p_pos
       /\ self'.start = self.start
       /\ self'.end = self.end]_vars

\* a dealloc at sum = 0 on an arena whose byte region is in use
C12_Witness ==
  /\ inited
  /\ last.op = "dealloc"
  /\ self.sum = WordMax
  /\ self.b_pos > self.start
  /\ self.b_pos <= self.p_pos

\* C13: at sum = 0, alloc_pages(n, a) moves p_pos down by n * PAGE_SIZE,
\* sets sum to n - 1 (the maximum when n = 0), returns Ok(new p_pos) and
\* leaves b_pos, start and end alone; alloc_pages always returns Ok.
C13_AllocPagesReservesUnchecked ==
  [][last'.op = "alloc_pages" =>
       /\ last'.ret.kind = "Ok"
       /\ (self.sum = 0) =>
            /\ self'.p_pos = (self.p_pos + Word * last'.a1 - last'.a1 * PAGE_SIZE) % Word
            /\ self'.sum = (last'.a1 + Word - 1) % Word
            /\ last'.ret = Ok(self'.p_pos)
            /\ self'.b_pos = self.b_pos
            /\ self'.start = self.start
            /\ self'.end = self.end]_vars

\* a batch reserved although it reaches below b_pos
C13_Witness ==
  /\ inited
  /\ last.op = "alloc_pages"
  /\ last.batch
  /\ last.a1 >= 1
  /\ last.ret = Ok(self.p_pos)
  /\ self.p_pos < self.b_pos
  /\ self.sum = last.a1 - 1

\* C14 as stated: once a batch of n >= 1 pages was reserved at sum = 0 on an
\* initialised arena and alloc_pages has been called n times in a row,
\* further alloc_pages calls leave p_pos alone while sum counts down and wraps.
C14_ExtraCallsWrapCounter ==
  [][(inited /\ batch_n >= 1 /\ run >= batch_n /\ last'.op = "alloc_pages") =>
       /\ self'.p_pos = self.p_pos
       /\ self'.sum = (self.sum + Word - 1) % Word]_vars

\* C14 amended: after a batch of n >= 1 pages was reserved at sum = 0, the
\* next n - 1 alloc_pages calls in a row share it and bring sum down to
\* exactly 0; the call after those finds sum = 0 and reserves a new batch,
\* moving p_pos by its own num_pages * PAGE_SIZE.
C14_ExtraCallReservesNewBatch ==
  [][(batch_n >= 1 /\ run >= 1 /\ run <= batch_n /\ last'.op = "alloc_pages") =>
       /\ self.sum = batch_n - run
       /\ (run < batch_n) =>
            /\ ~last'.batch
            /\ self'.p_pos = self.p_pos
            /\ self'.sum = self.sum - 1
       /\ (run = batch_n) =>
            /\ last'.batch
            /\ self'.p_pos = (self.p_pos + Word * last'.a1 - last'.a1 * PAGE_SIZE) % Word
            /\ self'.sum = (last'.a1 + Word - 1) % Word]_vars

\* init, alloc_pages(2, _), alloc_pages, alloc_pages(m, _) with m >= 1: the
\* third call has reserved a second batch
C14_Witness ==
  /\ inited
  /\ batch_n = 2
  /\ run = 3
  /\ last.op = "alloc_pages"
  /\ last.batch
  /\ last.a1 >= 1
  /\ self.p_pos = (self.end + Word * 8 - (2 + last.a1) * PAGE_SIZE) % Word
  /\ self.sum = last.a1 - 1

\* C15: dealloc_pages adds exactly one to sum and moves p_pos (up
\* by n * PAGE_SIZE) only when sum stood at the maximum; and after init, with
\* no dealloc and no alloc_pages(0, _), no dealloc_pages call moves p_pos.
C15_ReleaseNeverMovesCursor ==
  [][last'.op = "dealloc_pages" =>
       /\ self'.sum = (self.sum + 1) % Word
       /\ (self'.p_pos # self.p_pos) =>
            /\ self.sum = WordMax
            /\ self'.p_pos = (self.p_pos + last'.a2 * PAGE_SIZE) % Word
       /\ clean => (self'.p_pos = self.p_pos)]_vars

\* C16: a dealloc that reclaims the byte region (sum reaches 0, b_pos back
\* at start) leaves no granted byte allocation unreleased.
C16_ReclaimOnlyWhenAllReleased ==
  [][(last'.op = "dealloc" /\ self'.sum = 0 /\ self'.b_pos = self'.start) =>
       (live' = 0)]_vars

\* C17: after init, no address of a byte allocation that may still be in
\* use lies in a reserved page batch, and alloc grants no address of a byte
\* allocation that may still be in use.
C17_NothingHandedOutTwice ==
  [][/\ inited' => (byte_mem' \cap page_mem' = {})
     /\ (inited /\ last'.op = "alloc" /\ last'.ret.kind = "Ok") =>
          (Bytes(last'.ret.val, last'.a1) \cap byte_mem = {})]_vars

\* C18: each of the six queries returns p_pos - b_pos (a usize difference),
\* the same value for all six, and changes no field.
C18_QueriesReturnCursorDistance ==
  [][/\ \A q \in Queries : query(q, self) = (self.p_pos + Word - self.b_pos) % Word
     /\ last'.op \in Queries =>
          /\ self' = self
          /\ last'.ret = Ok((self.p_pos + Word - self.b_pos) % Word)]_vars

\* used_pages asked while b_pos stands beyond p_pos: the difference wraps
C18_Witness ==
  /\ inited
  /\ last.op = "used_pages"
  /\ self.b_pos > self.p_pos
  /\ last.ret = Ok(Word + self.p_pos - self.b_pos)

\* C19: after init, end - p_pos (modulo the word) is a multiple of
\* PAGE_SIZE, and alloc and dealloc never change p_pos.
C19_PageCursorPageGranular ==
  [][/\ inited' => (((self'.end + Word - self'.p_pos) % Word) % PAGE_SIZE = 0)
     /\ last'.op \in {"alloc", "dealloc"} => (self'.p_pos = self.p_pos)]_vars

\* a byte allocation granted after pages were reserved
C19_Witness ==
  /\ inited
  /\ last.op = "alloc"
  /\ last.ret.kind = "Ok"
  /\ last.a1 > 0
  /\ self.p_pos # self.end
  /\ page_mem # {}
====
